---- MODULE Spec2Model ----
(***************************************************************************)
(* State-machine model of the trading core of Machine-Learning-Plugins:    *)
(* TradingBot (src/src/services/tradingBot.ts), the PredictionEngine it    *)
(* calls (src/src/services/predictionEngine.ts), the SentimentAnalyzer     *)
(* (src/src/services/sentimentAnalyzer.ts), the TechnicalAnalysisService   *)
(* (src/src/services/technicalAnalysis.ts) and the polling of the          *)
(* TradingSignals component (src/src/components/TradingSignals.tsx).       *)
(*                                                                         *)
(* Numbers are fixed-point integers:                                       *)
(*   money and prices   whole dollars                                      *)
(*   amounts            1/AmountScale of a coin                            *)
(*   confidences, maxPositionSize, risk multipliers   percent (Pct)        *)
(*   portfolio risk     1/RiskScale                                        *)
(* Prices are multiples of AmountScale, so amount * price is exact.        *)
(***************************************************************************)
EXTENDS Integers, Sequences, FiniteSets, TLC

\* ------------------------------------------------------------------ units
AmountScale == 1000
Pct == 100
RiskScale == 10000

\* ----------------------------------------------------------------- bounds
MaxDay == 1
MaxUpdates == 2
MaxExecutions == 3
MaxLen == 4

\* ------------------------------------------------------- input universes
Symbols == {"BTC", "ETH"}
\* Math.random() * 50000 + 10000, sampled per symbol
MockPrices == [s \in Symbols |-> IF s = "BTC" THEN {20000} ELSE {10000}]
Prices == {10000, 20000}
Amounts == {500, 1000}
Confidences == {50, 80}
Actions == {"BUY", "SELL", "HOLD"}
Runs == {"r1", "r2"}

VARIABLES
  cash,             \* portfolio.cash
  totalValue,       \* portfolio.totalValue
  positions,        \* portfolio.positions : symbol -> position
  activePositions,  \* Map<string, TradeExecution>
  tradeHistory,     \* TradeExecution[]
  config,           \* AutoTradingConfig
  day,              \* the calendar day new Date() falls on
  pc,               \* per executeAutoTrading call: where it is suspended
  pending,          \* symbols generateTradingSignals has still to evaluate
  signals,          \* the call's signals array
  executions,       \* the call's executions array
  rejects,          \* history: why each signal of the call was not executed
  steady,           \* history: config and day unchanged since the call began
  updates,          \* number of updateConfig calls so far
  pe,               \* a generatePrediction call: inputs, position, result
  sa,               \* an analyzeSentiment call: sources, position, result
  ui,               \* the TradingSignals component: loading, signals, calls
  faulty,           \* symbols whose evaluation throws inside the loop
  threw,            \* history: the symbols whose evaluation threw, per call
  snap,             \* a value returned by getPortfolio(), held by a caller
  cfg,              \* history: the last updateConfig argument and the
                    \* configuration it was applied to
  ta                \* a TechnicalAnalysisService call: inputs and result

vars == <<cash, totalValue, positions, activePositions, tradeHistory, config,
          day, pc, pending, signals, executions, rejects, steady, updates,
          pe, sa, ui, faulty, threw, snap, cfg, ta>>

botVars == <<cash, totalValue, positions, activePositions, tradeHistory>>
runVars == <<pc, pending, signals, executions, rejects, steady>>
auxVars == <<sa, ui, faulty, threw, snap, cfg, ta>>

\* ------------------------------------------------------------- helpers
RECURSIVE SumOver(_, _)
SumOver(f, S) ==
  IF S = {} THEN 0
  ELSE LET x == CHOOSE y \in S : TRUE IN f[x] + SumOver(f, S \ {x})

Min(a, b) == IF a <= b THEN a ELSE b

\* ------------------------------------------------- construction (Init)
EmptyMap == [s \in {} |-> 0]

initializePortfolio ==
  [totalValue |-> 100000, cash |-> 100000, positions |-> EmptyMap]

DefaultStrategy ==
  [name |-> "Balanced Growth", riskTolerance |-> "MEDIUM",
   maxPositionSize |-> 10, stopLossPercentage |-> 5,
   takeProfitPercentage |-> 15, minConfidence |-> 70]

getDefaultConfig ==
  [enabled |-> FALSE, strategy |-> DefaultStrategy, maxDailyTrades |-> 5,
   maxPortfolioRisk |-> 3000, symbols |-> <<"BTC", "ETH">>]

\* Strategies an operator can install with updateConfig({strategy: ...}).
Strategies ==
  { DefaultStrategy,
    [name |-> "Conservative", riskTolerance |-> "LOW",
     maxPositionSize |-> 10, stopLossPercentage |-> 5,
     takeProfitPercentage |-> 15, minConfidence |-> 90],
    [name |-> "Aggressive", riskTolerance |-> "HIGH",
     maxPositionSize |-> 100, stopLossPercentage |-> 5,
     takeProfitPercentage |-> 15, minConfidence |-> 40],
    [name |-> "Flat", riskTolerance |-> "MEDIUM",
     maxPositionSize |-> 0, stopLossPercentage |-> 5,
     takeProfitPercentage |-> 15, minConfidence |-> 40] }

\* Well-typed Partial<AutoTradingConfig> arguments of updateConfig.
Partials ==
  { [enabled |-> TRUE], [enabled |-> FALSE],
    [maxDailyTrades |-> 1],
    [maxPortfolioRisk |-> 50] }
  \cup { [strategy |-> s] : s \in Strategies \ {DefaultStrategy} }

\* -------------------------------------------------------- TradingBot
\* tradeHistory.filter(trade => trade.timestamp.toDateString() ===
\*                              new Date().toDateString()).length
todayTrades(d) ==
  Cardinality({ i \in DOMAIN tradeHistory : tradeHistory[i].day = d })

calculatePortfolioRisk ==
  LET positionRisk == [s \in DOMAIN positions |->
        (positions[s].currentValue * (RiskScale \div 10)) \div totalValue]
  IN SumOver(positionRisk, DOMAIN positions)

\* Variants of shouldExecuteTrade with one check written wrongly.
shouldExecuteTrade_OffByOne(signal) ==
  IF todayTrades(day) > config.maxDailyTrades THEN FALSE
  ELSE IF signal.symbol \in DOMAIN activePositions THEN FALSE
  ELSE IF signal.confidence < config.strategy.minConfidence THEN FALSE
  ELSE IF calculatePortfolioRisk >= config.maxPortfolioRisk THEN FALSE
  ELSE TRUE

shouldExecuteTrade_NoRisk(signal) ==
  IF todayTrades(day) >= config.maxDailyTrades THEN FALSE
  ELSE IF signal.symbol \in DOMAIN activePositions THEN FALSE
  ELSE IF signal.confidence < config.strategy.minConfidence THEN FALSE
  ELSE TRUE

shouldExecuteTrade(signal) ==
  IF todayTrades(day) >= config.maxDailyTrades THEN FALSE
  ELSE IF signal.symbol \in DOMAIN activePositions THEN FALSE
  ELSE IF signal.confidence < config.strategy.minConfidence THEN FALSE
  ELSE IF calculatePortfolioRisk >= config.maxPortfolioRisk THEN FALSE
  ELSE TRUE

\* Variant of getRiskMultiplier that scales HIGH up instead of leaving it.
getRiskMultiplier_HighBoost ==
  CASE config.strategy.riskTolerance = "LOW" -> 50
    [] config.strategy.riskTolerance = "MEDIUM" -> 75
    [] config.strategy.riskTolerance = "HIGH" -> 150
    [] OTHER -> 75

getRiskMultiplier ==
  CASE config.strategy.riskTolerance = "LOW" -> 50
    [] config.strategy.riskTolerance = "MEDIUM" -> 75
    [] config.strategy.riskTolerance = "HIGH" -> 100
    [] OTHER -> 75

calculatePositionSize(signal) ==
  LET maxPositionValue ==
        (totalValue * config.strategy.maxPositionSize) \div Pct
      positionSize == (maxPositionValue * AmountScale) \div signal.price
      confidenceMultiplier == signal.confidence
      riskMultiplier == getRiskMultiplier
  IN (((positionSize * confidenceMultiplier) \div Pct) * riskMultiplier)
       \div Pct

\* Variant of updatePortfolioValue that leaves totalValue as it was.
updatePortfolioValue_Stale(c, pos) == totalValue

\* Object.values(positions).forEach(p => total += p.currentValue);
\* totalValue = cash + total
updatePortfolioValue(c, pos) ==
  c + SumOver([s \in DOMAIN pos |-> pos[s].currentValue], DOMAIN pos)

\* Variant of updatePortfolio whose SELL deletes the entry only below 0.
updatePortfolio_StrictDelete(execution) ==
  LET sym  == execution.symbol
      cost == (execution.amount * execution.price) \div AmountScale
      held == sym \in DOMAIN positions
      others == DOMAIN positions \ {sym}
      keep == [s \in others |-> positions[s]]
      newCash ==
        CASE execution.action = "BUY"  -> cash - cost
          [] execution.action = "SELL" -> cash + cost
          [] OTHER -> cash
      newPos ==
        CASE execution.action = "BUY" ->
               IF held
               THEN LET existing == positions[sym]
                        totalAmount == existing.amount + execution.amount
                        totalCost ==
                          existing.amount * existing.averagePrice
                            + execution.amount * execution.price
                    IN keep @@ (sym :>
                         [amount |-> totalAmount,
                          averagePrice |-> totalCost \div totalAmount,
                          currentValue |->
                            (totalAmount * execution.price) \div AmountScale])
               ELSE keep @@ (sym :>
                         [amount |-> execution.amount,
                          averagePrice |-> execution.price,
                          currentValue |-> cost])
          [] execution.action = "SELL" ->
               IF held
               THEN LET existing == positions[sym]
                        left == existing.amount - execution.amount
                    IN IF left < 0 THEN keep
                       ELSE keep @@ (sym :>
                              [existing EXCEPT !.amount = left])
               ELSE positions
          [] OTHER -> positions
  IN [cash |-> newCash, positions |-> newPos,
      totalValue |-> updatePortfolioValue(newCash, newPos)]

\* Variant of updatePortfolio whose BUY of a held symbol takes the price of
\* the execution as the average price.
updatePortfolio_LastPrice(execution) ==
  LET sym  == execution.symbol
      cost == (execution.amount * execution.price) \div AmountScale
      held == sym \in DOMAIN positions
      others == DOMAIN positions \ {sym}
      keep == [s \in others |-> positions[s]]
      newCash ==
        CASE execution.action = "BUY"  -> cash - cost
          [] execution.action = "SELL" -> cash + cost
          [] OTHER -> cash
      newPos ==
        CASE execution.action = "BUY" ->
               IF held
               THEN LET existing == positions[sym]
                        totalAmount == existing.amount + execution.amount
                    IN keep @@ (sym :>
                         [amount |-> totalAmount,
                          averagePrice |-> execution.price,
                          currentValue |->
                            (totalAmount * execution.price) \div AmountScale])
               ELSE keep @@ (sym :>
                         [amount |-> execution.amount,
                          averagePrice |-> execution.price,
                          currentValue |-> cost])
          [] execution.action = "SELL" ->
               IF held
               THEN LET existing == positions[sym]
                        left == existing.amount - execution.amount
                    IN IF left <= 0 THEN keep
                       ELSE keep @@ (sym :>
                              [existing EXCEPT !.amount = left])
               ELSE positions
          [] OTHER -> positions
  IN [cash |-> newCash, positions |-> newPos,
      totalValue |-> updatePortfolioValue(newCash, newPos)]

\* The portfolio after updatePortfolio(execution), as a record.
updatePortfolio(execution) ==
  LET sym  == execution.symbol
      cost == (execution.amount * execution.price) \div AmountScale
      held == sym \in DOMAIN positions
      others == DOMAIN positions \ {sym}
      keep == [s \in others |-> positions[s]]
      newCash ==
        CASE execution.action = "BUY"  -> cash - cost
          [] execution.action = "SELL" -> cash + cost
          [] OTHER -> cash
      newPos ==
        CASE execution.action = "BUY" ->
               IF held
               THEN LET existing == positions[sym]
                        totalAmount == existing.amount + execution.amount
                        totalCost ==
                          existing.amount * existing.averagePrice
                            + execution.amount * execution.price
                    IN keep @@ (sym :>
                         [amount |-> totalAmount,
                          averagePrice |-> totalCost \div totalAmount,
                          currentValue |->
                            (totalAmount * execution.price) \div AmountScale])
               ELSE keep @@ (sym :>
                         [amount |-> execution.amount,
                          averagePrice |-> execution.price,
                          currentValue |-> cost])
          [] execution.action = "SELL" ->
               IF held
               THEN LET existing == positions[sym]
                        left == existing.amount - execution.amount
                    IN IF left <= 0 THEN keep
                       ELSE keep @@ (sym :>
                              [existing EXCEPT !.amount = left])
               ELSE positions
          [] OTHER -> positions
  IN [cash |-> newCash, positions |-> newPos,
      totalValue |-> updatePortfolioValue(newCash, newPos)]

\* Variant of executeTrade that records the execution in tradeHistory but
\* not in activePositions.
executeTrade_NoIndex(signal, stamp) ==
  LET positionSize == calculatePositionSize(signal)
      execution ==
        [id |-> Len(tradeHistory) + 1, symbol |-> signal.symbol,
         action |-> signal.action, amount |-> positionSize,
         price |-> signal.price, day |-> stamp,
         status |-> "EXECUTED", profit |-> 0]
      p == updatePortfolio(execution)
  IN IF positionSize <= 0
     THEN [ok |-> FALSE, execution |-> execution, cash |-> cash,
           totalValue |-> totalValue, positions |-> positions,
           activePositions |-> activePositions,
           tradeHistory |-> tradeHistory]
     ELSE [ok |-> TRUE, execution |-> execution, cash |-> p.cash,
           totalValue |-> p.totalValue, positions |-> p.positions,
           activePositions |-> activePositions,
           tradeHistory |-> Append(tradeHistory, execution)]

\* Variant of executeTrade that tests positionSize only after it has
\* updated the portfolio.
executeTrade_LateGuard(signal, stamp) ==
  LET positionSize == calculatePositionSize(signal)
      execution ==
        [id |-> Len(tradeHistory) + 1, symbol |-> signal.symbol,
         action |-> signal.action, amount |-> positionSize,
         price |-> signal.price, day |-> stamp,
         status |-> "EXECUTED", profit |-> 0]
      p == updatePortfolio(execution)
  IN IF positionSize <= 0
     THEN [ok |-> FALSE, execution |-> execution, cash |-> p.cash,
           totalValue |-> p.totalValue, positions |-> p.positions,
           activePositions |-> activePositions,
           tradeHistory |-> tradeHistory]
     ELSE [ok |-> TRUE, execution |-> execution, cash |-> p.cash,
           totalValue |-> p.totalValue, positions |-> p.positions,
           activePositions |->
             [s \in (DOMAIN activePositions) \ {signal.symbol} |->
                activePositions[s]] @@ (signal.symbol :> execution),
           tradeHistory |-> Append(tradeHistory, execution)]

\* What executeTrade(signal) leaves behind; stamp is the day its new Date()
\* falls on.  ok = FALSE stands for the null result.
executeTrade(signal, stamp) ==
  LET positionSize == calculatePositionSize(signal)
      execution ==
        [id |-> Len(tradeHistory) + 1, symbol |-> signal.symbol,
         action |-> signal.action, amount |-> positionSize,
         price |-> signal.price, day |-> stamp,
         status |-> "EXECUTED", profit |-> 0]
      p == updatePortfolio(execution)
      unchanged ==
        [ok |-> FALSE, execution |-> execution, cash |-> cash,
         totalValue |-> totalValue, positions |-> positions,
         activePositions |-> activePositions, tradeHistory |-> tradeHistory]
  IN IF positionSize <= 0 THEN unchanged
     ELSE [ok |-> TRUE, execution |-> execution, cash |-> p.cash,
           totalValue |-> p.totalValue, positions |-> p.positions,
           activePositions |->
             [s \in (DOMAIN activePositions) \ {signal.symbol} |->
                activePositions[s]] @@ (signal.symbol :> execution),
           tradeHistory |-> Append(tradeHistory, execution)]

\* signals.sort((a, b) => b.confidence - a.confidence): stable, descending.
RECURSIVE InsertSorted(_, _)
InsertSorted(sorted, x) ==
  IF sorted = <<>> THEN <<x>>
  ELSE IF Head(sorted).confidence >= x.confidence
       THEN <<Head(sorted)>> \o InsertSorted(Tail(sorted), x)
       ELSE <<x>> \o sorted

RECURSIVE SortByConfidence(_)
SortByConfidence(seq) ==
  IF seq = <<>> THEN <<>>
  ELSE InsertSorted(SortByConfidence(SubSeq(seq, 1, Len(seq) - 1)),
                    seq[Len(seq)])

\* History bookkeeping only: the first admission check a signal fails in
\* the current state, "none" if it passes all four.
RejectReason(signal) ==
  IF todayTrades(day) >= config.maxDailyTrades THEN "frequency"
  ELSE IF signal.symbol \in DOMAIN activePositions THEN "position"
  ELSE IF signal.confidence < config.strategy.minConfidence THEN "confidence"
  ELSE IF calculatePortfolioRisk >= config.maxPortfolioRisk THEN "risk"
  ELSE "none"

\* Index of the first signal of q that shouldExecuteTrade lets through,
\* Len(q) + 1 if there is none.
RECURSIVE FirstAdmitted(_, _)
FirstAdmitted(q, i) ==
  IF i > Len(q) THEN i
  ELSE IF shouldExecuteTrade(q[i]) THEN i
  ELSE FirstAdmitted(q, i + 1)

Traded(symbol) ==
  \E i \in DOMAIN tradeHistory : tradeHistory[i].symbol = symbol

Rejections(q, n) ==
  [i \in 1..n |->
     [symbol |-> q[i].symbol, action |-> q[i].action,
      reason |-> RejectReason(q[i]),
      held |-> q[i].symbol \in DOMAIN activePositions,
      traded |-> Traded(q[i].symbol)]]

\* ------------------------------------------------- PredictionEngine
\* Scores, confidences, strengths and volatility are in percent; the fused
\* score, a sum of percent x percent-weight products, is in 1/10000.
Sentiments == {-100, -60, -50, -20, 0, 20, 50, 60, 100}
Trends == {"BULLISH", "BEARISH", "SIDEWAYS"}
Volatilities == {10, 50, 90}
Volumes == {500000, 2000000}
MarketConditions ==
  [trend : Trends, volatility : Volatilities, volume : Volumes]

Abs(x) == IF x < 0 THEN -x ELSE x
Max(a, b) == IF a >= b THEN a ELSE b

\* Results of analyzeIndicators the engine is run on.
Sig(indicator, signal, strength, description) ==
  [indicator |-> indicator, signal |-> signal, strength |-> strength,
   description |-> description]

TechnicalSignalLists ==
  { <<>>,
    <<Sig("RSI", "BUY", 100, "RSI indicates oversold conditions")>>,
    <<Sig("RSI", "SELL", 100, "RSI indicates overbought conditions")>>,
    <<Sig("MACD", "BUY", 40, "MACD shows bullish momentum"),
      Sig("MA Cross", "BUY", 70, "Golden cross detected (SMA20 > SMA50)")>>,
    <<Sig("RSI", "BUY", 50, "RSI indicates oversold conditions"),
      Sig("MA Cross", "SELL", 70, "Death cross detected (SMA20 < SMA50)")>> }

\* Bollinger bands handed to calculatePriceTargets.
BandsFor(price) ==
  [upper |-> price + 1000, middle |-> price, lower |-> price - 1000]

RECURSIVE StrengthOf(_, _)
StrengthOf(technicalSignals, side) ==
  IF technicalSignals = <<>> THEN 0
  ELSE (IF Head(technicalSignals).signal = side
        THEN Head(technicalSignals).strength ELSE 0)
       + StrengthOf(Tail(technicalSignals), side)

getOverallSignal(technicalSignals) ==
  IF Len(technicalSignals) = 0 THEN [signal |-> "NEUTRAL", confidence |-> 0]
  ELSE LET buyStrength == StrengthOf(technicalSignals, "BUY")
           sellStrength == StrengthOf(technicalSignals, "SELL")
           netStrength == buyStrength - sellStrength
           confidence == Abs(netStrength) \div Len(technicalSignals)
       IN IF netStrength > 50 THEN [signal |-> "BUY", confidence |-> confidence]
          ELSE IF netStrength < -50
               THEN [signal |-> "SELL", confidence |-> confidence]
               ELSE [signal |-> "NEUTRAL", confidence |-> confidence]

getTechnicalScore(technicalOverall) ==
  LET baseScore == IF technicalOverall.signal = "BUY" THEN 1
                   ELSE IF technicalOverall.signal = "SELL" THEN -1 ELSE 0
  IN baseScore * technicalOverall.confidence

getSentimentScore(overall) == overall

getMarketScore(marketConditions) ==
  LET trendScore == IF marketConditions.trend = "BULLISH" THEN 50
                    ELSE IF marketConditions.trend = "BEARISH" THEN -50
                    ELSE 0
      calm == ((Pct - marketConditions.volatility) * 30) \div Pct
      flow == (Min(marketConditions.volume, 1000000) * 20) \div 1000000
      score == trendScore + calm + flow
  IN Max(-Pct, Min(Pct, score))

\* Variant of determinePrediction whose thresholds are inclusive.
determinePrediction_Inclusive(score) ==
  IF score >= 3000 THEN "BUY"
  ELSE IF score <= -3000 THEN "SELL"
  ELSE "HOLD"

determinePrediction(score) ==
  IF score > 3000 THEN "BUY"
  ELSE IF score < -3000 THEN "SELL"
  ELSE "HOLD"

calculateConfidence(technicalConfidence, overall, marketConditions) ==
  LET sentimentConfidence == Abs(overall)
      marketConfidence == Pct - marketConditions.volatility
  IN (technicalConfidence + sentimentConfidence + marketConfidence) \div 3

\* Variant of calculatePriceTargets with the 5% band of getDefaultPrediction
\* on both sides of the price.
calculatePriceTargets_Symmetric(currentPrice, prediction, bollingerBands, volatility) ==
  IF prediction = "HOLD"
  THEN [targetPrice |-> currentPrice, stopLoss |-> currentPrice,
        takeProfit |-> currentPrice]
  ELSE [targetPrice |-> currentPrice,
        stopLoss |-> (currentPrice * 95) \div Pct,
        takeProfit |-> (currentPrice * 105) \div Pct]

calculatePriceTargets(currentPrice, prediction, bollingerBands, volatility) ==
  LET volatilityMultiplier == Pct + volatility
  IN IF prediction = "BUY"
     THEN [targetPrice |->
             (bollingerBands.upper * volatilityMultiplier) \div Pct,
           stopLoss |-> (currentPrice * 95) \div Pct,
           takeProfit |-> (currentPrice * 115) \div Pct]
     ELSE IF prediction = "SELL"
     THEN [targetPrice |->
             (bollingerBands.lower * Pct) \div volatilityMultiplier,
           stopLoss |-> (currentPrice * 105) \div Pct,
           takeProfit |-> (currentPrice * 85) \div Pct]
     ELSE [targetPrice |-> currentPrice, stopLoss |-> currentPrice,
           takeProfit |-> currentPrice]

getSentimentLabel(score) ==
  IF score > 60 THEN "Very Bullish"
  ELSE IF score > 20 THEN "Bullish"
  ELSE IF score > -20 THEN "Neutral"
  ELSE IF score > -60 THEN "Bearish"
  ELSE "Very Bearish"

\* A reasoning entry: the clause it belongs to, its text, and the label
\* and figure the text is built from.
Clause(part, text, detail, figure) ==
  [part |-> part, text |-> text, detail |-> detail, figure |-> figure]

\* String.prototype.toLowerCase on the names the engine prints.
toLowerCase(str) ==
  CASE str = "BULLISH" -> "bullish"
    [] str = "BEARISH" -> "bearish"
    [] str = "SIDEWAYS" -> "sideways"
    [] str = "Very Bullish" -> "very bullish"
    [] str = "Bullish" -> "bullish"
    [] str = "Neutral" -> "neutral"
    [] str = "Bearish" -> "bearish"
    [] str = "Very Bearish" -> "very bearish"
    [] OTHER -> str

generateReasoning(technicalSignals, overall, marketConditions, prediction) ==
  [i \in DOMAIN technicalSignals |->
     Clause("technical", technicalSignals[i].indicator,
            technicalSignals[i].description, 0)]
  \o <<Clause("sentiment", "Market sentiment is",
              toLowerCase(getSentimentLabel(overall)), overall)>>
  \o <<Clause("market", "Market trend is",
              toLowerCase(marketConditions.trend), 0)>>
  \o <<Clause("market", "Volatility is",
              IF marketConditions.volatility > 50 THEN "high"
              ELSE "moderate", 0)>>
  \o (IF marketConditions.volume > 1000000
      THEN <<Clause("market", "High trading volume supports the move",
                    "", 0)>>
      ELSE <<>>)

determineTimeframe(volatility) ==
  IF volatility > 70 THEN "1-3 days"
  ELSE IF volatility > 40 THEN "3-7 days"
  ELSE "1-2 weeks"

assessRiskLevel(confidence, volatility) ==
  LET riskScore == (Pct - confidence) + volatility
  IN IF riskScore < 40 THEN "LOW"
     ELSE IF riskScore < 70 THEN "MEDIUM"
     ELSE "HIGH"

calculateExpectedReturn(currentPrice, targetPrice) ==
  ((targetPrice - currentPrice) * Pct) \div currentPrice

getDefaultPrediction(symbol, currentPrice) ==
  [symbol |-> symbol, prediction |-> "HOLD", confidence |-> 50,
   targetPrice |-> currentPrice, timeframe |-> "1 week",
   reasoning |->
     <<Clause("default", "Insufficient data for accurate prediction",
              "", 0)>>,
   riskLevel |-> "MEDIUM", expectedReturn |-> 0,
   stopLoss |-> (currentPrice * 95) \div Pct,
   takeProfit |-> (currentPrice * 105) \div Pct]

\* Where a throw can happen inside generatePrediction.
Faults == {"none", "indicators", "sentiment", "signals", "scoring",
           "targets", "reasoning"}

\* Variant of generatePrediction whose try block ends before the price
\* targets and the reasoning are computed.
generatePrediction_EarlyCatch(symbol, currentPrice, technicalSignals, overall, marketConditions, fault) ==
  IF fault \in {"targets", "reasoning"}
  THEN [status |-> "rejected", value |-> <<>>]
  ELSE [status |-> "resolved",
        value |-> <<getDefaultPrediction(symbol, currentPrice)>>]

\* generatePrediction: the body of its try block, and its catch when a
\* step throws.
generatePrediction(symbol, currentPrice, technicalSignals, overall, marketConditions, fault) ==
  IF fault # "none"
  THEN [status |-> "resolved",
        value |-> <<getDefaultPrediction(symbol, currentPrice)>>]
  ELSE
    LET technicalOverall == getOverallSignal(technicalSignals)
        technicalScore == getTechnicalScore(technicalOverall)
        sentimentScore == getSentimentScore(overall)
        marketScore == getMarketScore(marketConditions)
        overallScore ==
          technicalScore * 50 + sentimentScore * 30 + marketScore * 20
        prediction == determinePrediction(overallScore)
        confidence ==
          calculateConfidence(technicalOverall.confidence, overall,
                              marketConditions)
        targets ==
          calculatePriceTargets(currentPrice, prediction,
                                BandsFor(currentPrice),
                                marketConditions.volatility)
        reasoning ==
          generateReasoning(technicalSignals, overall, marketConditions,
                            prediction)
    IN [status |-> "resolved",
        value |->
          <<[symbol |-> symbol, prediction |-> prediction,
             confidence |-> confidence,
             targetPrice |-> targets.targetPrice,
             timeframe |-> determineTimeframe(marketConditions.volatility),
             reasoning |-> reasoning,
             riskLevel |->
               assessRiskLevel(confidence, marketConditions.volatility),
             expectedReturn |->
               calculateExpectedReturn(currentPrice, targets.targetPrice),
             stopLoss |-> targets.stopLoss,
             takeProfit |-> targets.takeProfit]>>]

\* ------------------------------------------ TechnicalAnalysisService
\* Samples of a price series are in 1/1000, an RSI is in 1/100 of a point
\* and a signal strength is in percent.  prices[i] of the code is
\* prices[i + 1] here.
PriceScale == 1000
RsiScale == 100

\* Variant of calculateRSI without the guard on the length of the series:
\* the samples that are not there count as 0.
calculateRSI_NoGuard(prices, period) ==
  LET at == [i \in 1..(period + 1) |->
               IF i <= Len(prices) THEN prices[i] ELSE 0]
      change == [i \in 1..period |-> at[i + 1] - at[i]]
      gains == SumOver([i \in 1..period |->
                          IF change[i] > 0 THEN change[i] ELSE 0],
                       1..period)
      losses == SumOver([i \in 1..period |->
                           IF change[i] > 0 THEN 0 ELSE -change[i]],
                        1..period)
  IN IF losses = 0 THEN 100 * RsiScale
     ELSE 100 * RsiScale - (100 * RsiScale * losses) \div (gains + losses)

\* calculateRSI: the loop runs over i = 1..period of the code's indices,
\* the first period + 1 samples.  avgGain and avgLoss are gains / period
\* and losses / period, so rs is gains / losses and 100 / (1 + rs) is
\* 100 * losses / (gains + losses).
calculateRSI(prices, period) ==
  IF Len(prices) < period + 1 THEN 50 * RsiScale
  ELSE LET change == [i \in 1..period |-> prices[i + 1] - prices[i]]
           gains == SumOver([i \in 1..period |->
                               IF change[i] > 0 THEN change[i] ELSE 0],
                            1..period)
           losses == SumOver([i \in 1..period |->
                                IF change[i] > 0 THEN 0 ELSE -change[i]],
                             1..period)
       IN IF losses = 0 THEN 100 * RsiScale
          ELSE 100 * RsiScale
                 - (100 * RsiScale * losses) \div (gains + losses)

\* calculateSMA: prices[prices.length - 1] || 0 is 0 for an empty series
\* (and for a last sample of 0).
calculateSMA(prices, period) ==
  IF Len(prices) < period
  THEN IF Len(prices) = 0 THEN 0 ELSE prices[Len(prices)]
  ELSE SumOver(prices, (Len(prices) - period + 1)..Len(prices)) \div period

\* The loop of calculateEMA from sample i on; the multiplier is
\* 2 / (period + 1).
RECURSIVE EmaFrom(_, _, _, _)
EmaFrom(prices, period, i, ema) ==
  IF i > Len(prices) THEN ema
  ELSE EmaFrom(prices, period, i + 1,
               (prices[i] * 2 + ema * (period - 1)) \div (period + 1))

calculateEMA(prices, period) ==
  IF Len(prices) = 0 THEN 0
  ELSE IF Len(prices) = 1 THEN prices[1]
  ELSE EmaFrom(prices, period, 2, prices[1])

\* calculateMACD, its three fields in tenths of the unit of the samples so
\* that the signal line, macd * 0.9, is exact.
calculateMACD(prices) ==
  LET ema12 == calculateEMA(prices, 12)
      ema26 == calculateEMA(prices, 26)
      macd == ema12 - ema26
  IN [macd |-> macd * 10, signal |-> macd * 9,
      histogram |-> macd * 10 - macd * 9]

\* analyzeIndicators; a MACD strength is min(|histogram| / 10, 1).
analyzeIndicators(indicators) ==
  (IF indicators.rsi < 30 * RsiScale
   THEN <<Sig("RSI", "BUY",
              ((30 * RsiScale - indicators.rsi) * Pct) \div (30 * RsiScale),
              "RSI indicates oversold conditions")>>
   ELSE IF indicators.rsi > 70 * RsiScale
   THEN <<Sig("RSI", "SELL",
              ((indicators.rsi - 70 * RsiScale) * Pct) \div (30 * RsiScale),
              "RSI indicates overbought conditions")>>
   ELSE <<>>)
  \o (IF indicators.macd.macd > indicators.macd.signal
         /\ indicators.macd.histogram > 0
      THEN <<Sig("MACD", "BUY",
                 Min(indicators.macd.histogram \div PriceScale, Pct),
                 "MACD shows bullish momentum")>>
      ELSE IF indicators.macd.macd < indicators.macd.signal
              /\ indicators.macd.histogram < 0
      THEN <<Sig("MACD", "SELL",
                 Min(Abs(indicators.macd.histogram) \div PriceScale, Pct),
                 "MACD shows bearish momentum")>>
      ELSE <<>>)
  \o (IF indicators.movingAverages.sma20 > indicators.movingAverages.sma50
      THEN <<Sig("MA Cross", "BUY", 70,
                 "Golden cross detected (SMA20 > SMA50)")>>
      ELSE IF indicators.movingAverages.sma20
                < indicators.movingAverages.sma50
      THEN <<Sig("MA Cross", "SELL", 70,
                 "Death cross detected (SMA20 < SMA50)")>>
      ELSE <<>>)

\* calculateTechnicalIndicators of the PredictionEngine, cut to the fields
\* analyzeIndicators reads and the other moving averages.
calculateTechnicalIndicators(priceHistory) ==
  [rsi |-> calculateRSI(priceHistory, 14),
   macd |-> calculateMACD(priceHistory),
   movingAverages |->
     [sma20 |-> calculateSMA(priceHistory, 20),
      sma50 |-> calculateSMA(priceHistory, 50),
      sma200 |-> calculateSMA(priceHistory, 200),
      ema12 |-> calculateEMA(priceHistory, 12),
      ema26 |-> calculateEMA(priceHistory, 26)]]

\* No TechnicalAnalysisService call is in hand.
IdleTechnical ==
  [op |-> "idle", prices |-> <<>>, period |-> 0, result |-> 0,
   indicators |-> <<>>]

\* ------------------------------------------------- SentimentAnalyzer
\* JavaScript numbers are IEEE-754 doubles.  The sentiment sum is modelled
\* bit for bit: a double is a sign and a magnitude in units of 2^-57, the
\* magnitude written hi * DblBase + lo.  Every value below 2 that the sum
\* meets is a whole number of units; an addition rounds its result to 53
\* significant bits, ties to even.
DblBase == 536870912

Dbl(neg, hi, lo) == [neg |-> neg, hi |-> hi, lo |-> lo]

DblZero == Dbl(FALSE, 0, 0)
DblOne == Dbl(FALSE, 268435456, 0)

\* The literals 0.4, 0.3, 0.2 and 0.1 of the weights object.
weights ==
  [news |-> Dbl(FALSE, 107374182, 214748368),
   twitter |-> Dbl(FALSE, 80530636, 429496728),
   reddit |-> Dbl(FALSE, 53687091, 107374184),
   telegram |-> Dbl(FALSE, 26843545, 322122548)]

DblNeg(x) ==
  IF x.hi = 0 /\ x.lo = 0 THEN x ELSE [x EXCEPT !.neg = ~x.neg]

\* x / 2, exact for the even magnitudes it is used on.
DblHalf(x) ==
  [x EXCEPT !.hi = x.hi \div 2,
            !.lo = (x.lo + (x.hi % 2) * DblBase) \div 2]

\* v * w for a source value v of 0, +-0.5 or +-1 (given in percent): the
\* product is exact.
DblTimes(v, w) ==
  CASE v = 100 -> w
    [] v = -100 -> DblNeg(w)
    [] v = 50 -> DblHalf(w)
    [] v = -50 -> DblNeg(DblHalf(w))
    [] OTHER -> DblZero

MagLess(x, y) == x.hi < y.hi \/ (x.hi = y.hi /\ x.lo < y.lo)

\* Round a magnitude to 53 significant bits, ties to even: the last kept
\* bit is worth 2^k units, k set by the binade the magnitude lies in.
DblRound(neg, hi, lo) ==
  LET P == IF hi >= 268435456 THEN 32
           ELSE IF hi >= 134217728 THEN 16
           ELSE IF hi >= 67108864 THEN 8
           ELSE IF hi >= 33554432 THEN 4
           ELSE IF hi >= 16777216 THEN 2
           ELSE 1
      q == lo \div P
      r == lo % P
      up == IF P > 1 /\ (2 * r > P \/ (2 * r = P /\ q % 2 = 1))
            THEN 1 ELSE 0
      lo2 == (q + up) * P
  IN IF hi = 0 /\ lo2 = 0 THEN DblZero
     ELSE IF lo2 = DblBase THEN Dbl(neg, hi + 1, 0)
     ELSE Dbl(neg, hi, lo2)

\* x + y, rounded.
DblAdd(x, y) ==
  IF x.neg = y.neg
  THEN LET s == x.lo + y.lo
       IN DblRound(x.neg, x.hi + y.hi + s \div DblBase, s % DblBase)
  ELSE LET big == IF MagLess(x, y) THEN y ELSE x
           small == IF MagLess(x, y) THEN x ELSE y
           borrow == IF big.lo < small.lo THEN 1 ELSE 0
       IN DblRound(big.neg, big.hi - small.hi - borrow,
                   big.lo + borrow * DblBase - small.lo)

\* x <= y as numbers.
DblLeq(x, y) ==
  IF x.neg /\ ~y.neg THEN TRUE
  ELSE IF ~x.neg /\ y.neg THEN FALSE
  ELSE IF x.neg THEN ~MagLess(x, y)
  ELSE ~MagLess(y, x)

\* Source values are 0, +-0.5 and +-1, written in percent.
SourceNames == {"news", "twitter", "reddit", "telegram"}
SocialNames == {"twitter", "reddit", "telegram"}
SourceValues == {-100, -50, 0, 50, 100}

\* What the sources hold and how they answer one analyzeSentiment call:
\* each source has a value and answers ("ok"), fails ("fail") or never
\* answers ("silent"); at most one source does not answer normally.  A
\* scraper reports a failed source either by rejecting ("throws") or by the
\* empty result its caller tests for ("degrades").
SourceStatuses ==
  { st \in [SourceNames -> {"ok", "fail", "silent"}] :
      Cardinality({ n \in SourceNames : st[n] # "ok" }) <= 1 }

Feeds ==
  { f \in [value : [SourceNames -> SourceValues], status : SourceStatuses,
           mode : {"throws", "degrades"}] :
      (\A n \in SourceNames : f.status[n] # "fail") => f.mode = "throws" }

\* A promise: pending, resolved with a value, or rejected.  The value is
\* held in a sequence, empty while there is none.
Pending == [status |-> "pending", value |-> <<>>]
Resolved(v) == [status |-> "resolved", value |-> <<v>>]
Rejected == [status |-> "rejected", value |-> <<>>]

\* What the promise of webScraper.scrapeNewsData(symbol) settles to.
scrapeNewsData(feed) ==
  CASE feed.status["news"] = "silent" -> Pending
    [] feed.status["news"] = "fail" ->
         IF feed.mode = "throws" THEN Rejected ELSE Resolved(<<>>)
    [] OTHER -> Resolved(<<[sentiment |-> feed.value["news"]]>>)

\* What the promise of webScraper.scrapeSocialMedia(symbol) settles to;
\* null is the empty sequence, an object a one-element sequence.
scrapeSocialMedia(feed) ==
  CASE \E n \in SocialNames : feed.status[n] = "silent" -> Pending
    [] \E n \in SocialNames : feed.status[n] = "fail" ->
         IF feed.mode = "throws" THEN Rejected ELSE Resolved(<<>>)
    [] OTHER ->
         Resolved(<<[twitter |-> [sentiment |-> feed.value["twitter"],
                                  mentions |-> 100, trending |-> TRUE],
                     reddit |-> [sentiment |-> feed.value["reddit"],
                                 posts |-> 10],
                     telegram |-> [sentiment |-> feed.value["telegram"],
                                   messages |-> 1]]>>)

\* Promise.all of two promises: rejected once either is, resolved once
\* both are.
PromiseAll(p, q) ==
  IF p.status = "rejected" \/ q.status = "rejected" THEN Rejected
  ELSE IF p.status = "resolved" /\ q.status = "resolved"
       THEN Resolved(<<p.value[1], q.value[1]>>)
       ELSE Pending

RECURSIVE SumSentiment(_)
SumSentiment(newsData) ==
  IF newsData = <<>> THEN 0
  ELSE Head(newsData).sentiment + SumSentiment(Tail(newsData))

calculateNewsSentiment(newsData) ==
  IF Len(newsData) = 0 THEN 0
  ELSE SumSentiment(newsData) \div Len(newsData)

\* newsSentiment * weights.news + twitter * weights.twitter
\*   + reddit * weights.reddit + telegram * weights.telegram,
\* added left to right.
calculateOverallSentiment(newsSentiment, socialSentiment) ==
  DblAdd(DblAdd(DblAdd(DblTimes(newsSentiment, weights.news),
                       DblTimes(socialSentiment.twitter, weights.twitter)),
                DblTimes(socialSentiment.reddit, weights.reddit)),
         DblTimes(socialSentiment.telegram, weights.telegram))

getDefaultSentiment(symbol) ==
  [symbol |-> symbol, overall |-> DblZero,
   sources |-> [news |-> 0, twitter |-> 0, reddit |-> 0, telegram |-> 0],
   volume |-> [news |-> 0, social |-> 0], trending |-> FALSE]

\* analyzeSentiment once Promise.all has settled to joined: the rest of the
\* try block, or the catch block when the join rejected.  The keyword list
\* and the timestamp of the result are not represented.
analyzeSentiment(symbol, joined) ==
  IF joined.status = "rejected" THEN getDefaultSentiment(symbol)
  ELSE
    LET newsData == joined.value[1][1]
        socialData == joined.value[1][2]
        newsSentiment == calculateNewsSentiment(newsData)
        socialSentiment ==
          IF socialData # <<>>
          THEN [twitter |-> socialData[1].twitter.sentiment,
                reddit |-> socialData[1].reddit.sentiment,
                telegram |-> socialData[1].telegram.sentiment]
          ELSE [twitter |-> 0, reddit |-> 0, telegram |-> 0]
    IN [symbol |-> symbol,
        overall |-> calculateOverallSentiment(newsSentiment, socialSentiment),
        sources |-> [news |-> newsSentiment,
                     twitter |-> socialSentiment.twitter,
                     reddit |-> socialSentiment.reddit,
                     telegram |-> socialSentiment.telegram],
        volume |->
          [news |-> Len(newsData),
           social |-> IF socialData # <<>>
                      THEN socialData[1].twitter.mentions
                           + socialData[1].reddit.posts
                           + socialData[1].telegram.messages
                      ELSE 0],
        trending |-> IF socialData # <<>>
                     THEN socialData[1].twitter.trending ELSE FALSE]

IdleSentiment ==
  [pc |-> "idle", symbol |-> "",
   feed |-> [value |-> [n \in SourceNames |-> 0],
             status |-> [n \in SourceNames |-> "ok"], mode |-> "throws"],
   news |-> Pending, social |-> Pending, result |-> <<>>]

IdleCall ==
  [pc |-> "idle", symbol |-> "", currentPrice |-> 0,
   technicalSignals |-> <<>>, overall |-> 0,
   marketConditions |->
     [trend |-> "SIDEWAYS", volatility |-> 0, volume |-> 0],
   fault |-> "none", result |-> <<>>]

\* No getPortfolio() result is held yet.
NoSnapshot ==
  [taken |-> FALSE, cash |-> 0, totalValue |-> 0, positions |-> "none",
   seen |-> EmptyMap]

\* getPortfolio(): { ...this.portfolio }.  The spread copies the numbers
\* cash and totalValue and the reference held in positions, so the result
\* points to the positions object of the bot; seen keeps, as history, what
\* that object held when the copy was made.
getPortfolio ==
  [taken |-> TRUE, cash |-> cash, totalValue |-> totalValue,
   positions |-> "portfolio.positions", seen |-> positions]

\* The positions map reached through a getPortfolio() result.
SnapshotPositions ==
  IF snap.positions = "portfolio.positions" THEN positions ELSE snap.seen

\* ----------------------------------------------------------- actions
Init ==
  /\ cash = initializePortfolio.cash
  /\ totalValue = initializePortfolio.totalValue
  /\ positions = initializePortfolio.positions
  /\ activePositions = EmptyMap
  /\ tradeHistory = <<>>
  /\ config = getDefaultConfig
  /\ day = 0
  /\ pc = [r \in Runs |-> "idle"]
  /\ pending = [r \in Runs |-> <<>>]
  /\ signals = [r \in Runs |-> <<>>]
  /\ executions = [r \in Runs |-> <<>>]
  /\ rejects = [r \in Runs |-> <<>>]
  /\ steady = [r \in Runs |-> FALSE]
  /\ updates = 0
  /\ pe = IdleCall
  /\ sa = IdleSentiment
  /\ ui = [loading |-> FALSE, signals |-> <<>>, calls |-> {}]
  /\ faulty = {}
  /\ threw = [r \in Runs |-> {}]
  /\ snap = NoSnapshot
  /\ cfg = [applied |-> FALSE, partial |-> EmptyMap,
            before |-> getDefaultConfig]
  /\ ta = IdleTechnical

\* Variant of StartAutoTrading that does not look at config.enabled.
StartAutoTrading_NoSwitch(r) ==
  /\ pc[r] = "idle"
  /\ pc' = [pc EXCEPT ![r] =
       IF config.symbols = <<>> THEN "executing" ELSE "generating"]
  /\ pending' = [pending EXCEPT ![r] = config.symbols]
  /\ signals' = [signals EXCEPT ![r] = <<>>]
  /\ executions' = [executions EXCEPT ![r] = <<>>]
  /\ rejects' = [rejects EXCEPT ![r] = <<>>]
  /\ steady' = [steady EXCEPT ![r] = TRUE]
  /\ threw' = [threw EXCEPT ![r] = {}]
  /\ UNCHANGED <<botVars, config, day, updates, pe, sa, ui, faulty, snap, cfg,
                 ta>>

\* executeAutoTrading(), up to its first await (generateTradingSignals of
\* an empty watch-list returns at once).
StartAutoTrading(r) ==
  /\ pc[r] = "idle"
  /\ IF ~config.enabled
     THEN /\ pc' = [pc EXCEPT ![r] = "done"]
          /\ pending' = [pending EXCEPT ![r] = <<>>]
     ELSE /\ pc' = [pc EXCEPT ![r] =
               IF config.symbols = <<>> THEN "executing" ELSE "generating"]
          /\ pending' = [pending EXCEPT ![r] = config.symbols]
  /\ signals' = [signals EXCEPT ![r] = <<>>]
  /\ executions' = [executions EXCEPT ![r] = <<>>]
  /\ rejects' = [rejects EXCEPT ![r] = <<>>]
  /\ steady' = [steady EXCEPT ![r] = TRUE]
  /\ threw' = [threw EXCEPT ![r] = {}]
  /\ UNCHANGED <<botVars, config, day, updates, pe, sa, ui, faulty, snap, cfg,
                 ta>>

\* Variant of GenerateSignal in which a throw leaves the loop: the signals
\* collected so far are sorted and returned.
GenerateSignal_AbortOnFault(r) ==
  /\ pc[r] = "generating"
  /\ pending[r] # <<>>
  /\ \E price \in MockPrices[Head(pending[r])], action \in Actions, confidence \in Confidences :
       LET symbol == Head(pending[r])
           signal == [symbol |-> symbol, action |-> action,
                      confidence |-> confidence, price |-> price]
           caught == symbol \in faulty
           collected ==
             IF ~caught /\ confidence >= config.strategy.minConfidence
             THEN Append(signals[r], signal) ELSE signals[r]
           last == caught \/ Len(pending[r]) = 1
       IN /\ pending' = [pending EXCEPT ![r] =
               IF caught THEN <<>> ELSE Tail(pending[r])]
          /\ signals' = [signals EXCEPT ![r] =
               IF last THEN SortByConfidence(collected) ELSE collected]
          /\ pc' = [pc EXCEPT ![r] = IF last THEN "executing" ELSE @]
          /\ threw' = [threw EXCEPT ![r] = IF caught THEN @ \cup {symbol} ELSE @]
  /\ UNCHANGED <<botVars, config, day, executions, rejects, steady, updates,
                 pe, sa, ui, faulty, snap, cfg, ta>>

\* One iteration of the loop of generateTradingSignals: the prediction for
\* the next symbol resolves to (action, confidence) at a mock price and the
\* signal is pushed if it is confident enough, or the body throws and the
\* catch block logs it; after the last symbol the array is sorted and
\* returned (pc = "executing": the caller of generateTradingSignals goes on).
GenerateSignal(r) ==
  /\ pc[r] = "generating"
  /\ pending[r] # <<>>
  /\ \E price \in MockPrices[Head(pending[r])], action \in Actions, confidence \in Confidences :
       LET symbol == Head(pending[r])
           signal == [symbol |-> symbol, action |-> action,
                      confidence |-> confidence, price |-> price]
           caught == symbol \in faulty
           collected ==
             IF ~caught /\ confidence >= config.strategy.minConfidence
             THEN Append(signals[r], signal) ELSE signals[r]
           last == Len(pending[r]) = 1
       IN /\ pending' = [pending EXCEPT ![r] = Tail(pending[r])]
          /\ signals' = [signals EXCEPT ![r] =
               IF last THEN SortByConfidence(collected) ELSE collected]
          /\ pc' = [pc EXCEPT ![r] = IF last THEN "executing" ELSE @]
          /\ threw' = [threw EXCEPT ![r] = IF caught THEN @ \cup {symbol} ELSE @]
  /\ UNCHANGED <<botVars, config, day, executions, rejects, steady, updates,
                 pe, sa, ui, faulty, snap, cfg, ta>>

\* The for loop of executeAutoTrading from one await to the next: signals
\* that fail shouldExecuteTrade are passed over without suspending, the
\* first one that passes is handed to executeTrade, whose body runs to its
\* end before the loop is suspended on the await.
ProcessSignal(r) ==
  /\ pc[r] = "executing"
  /\ signals[r] # <<>>
  /\ LET q == signals[r]
         k == FirstAdmitted(q, 1)
     IN IF k > Len(q)
        THEN /\ rejects' = [rejects EXCEPT ![r] = @ \o Rejections(q, Len(q))]
             /\ signals' = [signals EXCEPT ![r] = <<>>]
             /\ pc' = [pc EXCEPT ![r] = "done"]
             /\ UNCHANGED <<botVars, day, executions, steady>>
        ELSE \E stamp \in {day, Min(day + 1, MaxDay)} :
             LET res == executeTrade(q[k], stamp)
             IN /\ cash' = res.cash
                /\ totalValue' = res.totalValue
                /\ positions' = res.positions
                /\ activePositions' = res.activePositions
                /\ tradeHistory' = res.tradeHistory
                /\ day' = stamp
                /\ executions' = [executions EXCEPT ![r] =
                     IF res.ok THEN Append(@, res.execution) ELSE @]
                /\ rejects' = [rejects EXCEPT ![r] =
                     @ \o Rejections(q, k - 1) \o
                     (IF res.ok THEN <<>>
                      ELSE <<[symbol |-> q[k].symbol,
                             action |-> q[k].action, reason |-> "size",
                             held |-> FALSE,
                             traded |-> Traded(q[k].symbol)]>>)]
                /\ signals' = [signals EXCEPT ![r] =
                     SubSeq(q, k + 1, Len(q))]
                /\ steady' = [x \in Runs |->
                     steady[x] /\ stamp = day /\ (x = r \/ ~res.ok)]
                /\ pc' = pc
  /\ UNCHANGED <<config, pending, updates, pe, auxVars>>

\* The loop is over: return executions.
FinishAutoTrading(r) ==
  /\ pc[r] = "executing"
  /\ signals[r] = <<>>
  /\ pc' = [pc EXCEPT ![r] = "done"]
  /\ UNCHANGED <<botVars, config, day, pending, signals, executions, rejects,
                 steady, updates, pe, auxVars>>

\* The caller takes the result; the bot can be asked again.
Return(r) ==
  /\ pc[r] = "done"
  /\ pc' = [pc EXCEPT ![r] = "idle"]
  /\ executions' = [executions EXCEPT ![r] = <<>>]
  /\ rejects' = [rejects EXCEPT ![r] = <<>>]
  /\ steady' = [steady EXCEPT ![r] = FALSE]
  /\ UNCHANGED <<botVars, config, day, pending, signals, updates, pe, auxVars>>

\* updateConfig(partial): this.config = { ...this.config, ...partial }
updateConfig(partial) == partial @@ config

UpdateConfig ==
  /\ updates < MaxUpdates
  /\ \E partial \in Partials :
       /\ updateConfig(partial) # config
       /\ config' = updateConfig(partial)
  /\ updates' = updates + 1
  /\ steady' = [r \in Runs |-> FALSE]
  /\ UNCHANGED <<botVars, day, pc, pending, signals, executions, rejects,
                 pe, auxVars>>

\* Midnight passes.
Tick ==
  /\ day < MaxDay
  /\ day' = day + 1
  /\ steady' = [r \in Runs |-> FALSE]
  /\ UNCHANGED <<botVars, config, pc, pending, signals, executions, rejects,
                 updates, pe, auxVars>>

Next ==
  \/ StartAutoTrading("r1")
  \/ GenerateSignal("r1")
  \/ ProcessSignal("r1")
  \/ FinishAutoTrading("r1")
  \/ Return("r1")
  \/ UpdateConfig
  \/ Tick

Spec == Init /\ [][Next]_vars

\* ---------------------------------------------- overlapping calls
\* The operator switches auto-trading on: updateConfig({enabled: true}).
EnableAutoTrading ==
  /\ ~config.enabled
  /\ config' = updateConfig([enabled |-> TRUE])
  /\ steady' = [r \in Runs |-> FALSE]
  /\ UNCHANGED <<botVars, day, pc, pending, signals, executions, rejects,
                 updates, pe, auxVars>>

\* Two executeAutoTrading calls in flight on the one event loop: each
\* action is one run-to-completion segment between awaits.
ConcNext ==
  \/ EnableAutoTrading
  \/ \E r \in Runs :
       \/ StartAutoTrading(r)
       \/ GenerateSignal(r)
       \/ ProcessSignal(r)
       \/ FinishAutoTrading(r)
       \/ Return(r)

SpecConc == Init /\ [][ConcNext]_vars

\* ------------------------------------ generatePrediction on its own
\* generatePrediction is called: the indicators are computed and the call
\* suspends on analyzeSentiment, unless computing them throws.
CallPrediction ==
  /\ pe.pc = "idle"
  /\ \E symbol \in Symbols, currentPrice \in Prices,
        technicalSignals \in TechnicalSignalLists,
        marketConditions \in MarketConditions,
        fault \in {"none", "indicators"} :
       LET call == [pe EXCEPT !.symbol = symbol,
                              !.currentPrice = currentPrice,
                              !.technicalSignals = technicalSignals,
                              !.marketConditions = marketConditions,
                              !.overall = 0, !.fault = fault]
           out == generatePrediction(symbol, currentPrice, technicalSignals,
                                     0, marketConditions, fault)
       IN pe' = IF fault = "none"
                THEN [call EXCEPT !.pc = "awaiting", !.result = <<>>]
                ELSE [call EXCEPT !.pc = out.status, !.result = out.value]
  /\ UNCHANGED <<botVars, config, day, runVars, updates, auxVars>>

\* analyzeSentiment settles and the rest of the try block runs.
ResumePrediction ==
  /\ pe.pc = "awaiting"
  /\ \E overall \in Sentiments, fault \in Faults \ {"indicators"} :
       LET out == generatePrediction(pe.symbol, pe.currentPrice,
                                     pe.technicalSignals, overall,
                                     pe.marketConditions, fault)
       IN pe' = [pe EXCEPT !.pc = out.status, !.result = out.value,
                           !.overall = overall, !.fault = fault]
  /\ UNCHANGED <<botVars, config, day, runVars, updates, auxVars>>

\* The caller has the result (or the rejection).
TakePrediction ==
  /\ pe.pc \in {"resolved", "rejected"}
  /\ pe' = IdleCall
  /\ UNCHANGED <<botVars, config, day, runVars, updates, auxVars>>

EngineNext ==
  \/ CallPrediction
  \/ ResumePrediction
  \/ TakePrediction

SpecEngine == Init /\ [][EngineNext]_vars

\* ------------------------------------ the TradingSignals component
\* The watch-list of the component, cut to the symbols of the model.
UiSymbols == <<"BTC", "ETH">>

\* generateSignals(), called on mount and by every setInterval tick, up to
\* its await: setLoading(true) and generateTradingSignals(symbols) is
\* started.  r is the call it starts.
IntervalTick(r) ==
  /\ pc[r] = "idle"
  /\ r \notin ui.calls
  /\ ui' = [ui EXCEPT !.loading = TRUE, !.calls = @ \cup {r}]
  /\ pc' = [pc EXCEPT ![r] = "generating"]
  /\ pending' = [pending EXCEPT ![r] = UiSymbols]
  /\ signals' = [signals EXCEPT ![r] = <<>>]
  /\ threw' = [threw EXCEPT ![r] = {}]
  /\ steady' = [steady EXCEPT ![r] = TRUE]
  /\ UNCHANGED <<botVars, config, day, executions, rejects, updates, pe, sa,
                 faulty, snap, cfg, ta>>

\* generateSignals() after its await: setSignals(newSignals), and
\* setLoading(false) in the finally block.
SetSignals(r) ==
  /\ r \in ui.calls
  /\ pc[r] = "executing"
  /\ ui' = [loading |-> FALSE, signals |-> signals[r],
            calls |-> ui.calls \ {r}]
  /\ pc' = [pc EXCEPT ![r] = "idle"]
  /\ signals' = [signals EXCEPT ![r] = <<>>]
  /\ threw' = [threw EXCEPT ![r] = {}]
  /\ steady' = [steady EXCEPT ![r] = FALSE]
  /\ UNCHANGED <<botVars, config, day, pending, executions, rejects, updates,
                 pe, sa, faulty, snap, cfg, ta>>

\* The interval fires every 30 seconds whatever the state of the call
\* before it.
TicksNext ==
  \E r \in Runs :
    \/ IntervalTick(r)
    \/ GenerateSignal(r)
    \/ SetSignals(r)

SpecTicks == Init /\ [][TicksNext]_vars

\* ------------------------------------ faults inside the loop
\* The evaluation of a symbol starts to throw, or stops throwing.
BreakSymbol(s) ==
  /\ s \notin faulty
  /\ faulty' = faulty \cup {s}
  /\ UNCHANGED <<botVars, config, day, runVars, updates, pe, sa, ui, threw,
                 snap, cfg, ta>>

MendSymbol(s) ==
  /\ s \in faulty
  /\ faulty' = faulty \ {s}
  /\ UNCHANGED <<botVars, config, day, runVars, updates, pe, sa, ui, threw,
                 snap, cfg, ta>>

\* The operator installs a strategy: updateConfig({strategy}).
SetStrategy ==
  /\ \E s \in Strategies :
       /\ config.strategy # s
       /\ config' = updateConfig([strategy |-> s])
  /\ steady' = [r \in Runs |-> FALSE]
  /\ UNCHANGED <<botVars, day, pc, pending, signals, executions, rejects,
                 updates, pe, auxVars>>

SignalsNext ==
  \/ IntervalTick("r1")
  \/ GenerateSignal("r1")
  \/ SetSignals("r1")
  \/ \E s \in Symbols : BreakSymbol(s)
  \/ \E s \in Symbols : MendSymbol(s)
  \/ SetStrategy

SpecSignals == Init /\ [][SignalsNext]_vars

\* ------------------------------------ getPortfolio and its callers
\* A caller takes getPortfolio() and keeps the result.
TakeSnapshot ==
  /\ ~snap.taken
  /\ snap' = getPortfolio
  /\ UNCHANGED <<botVars, config, day, runVars, updates, pe, sa, ui, faulty,
                 threw, cfg, ta>>

\* The caller writes to the cash field of the object it holds.
ClearSnapshotCash ==
  /\ snap.taken
  /\ snap.cash # 0
  /\ snap' = [snap EXCEPT !.cash = 0]
  /\ UNCHANGED <<botVars, config, day, runVars, updates, pe, sa, ui, faulty,
                 threw, cfg, ta>>

\* The caller deletes an entry of the positions map of the object it holds.
DeleteFromSnapshot(s) ==
  /\ snap.taken
  /\ s \in DOMAIN SnapshotPositions
  /\ IF snap.positions = "portfolio.positions"
     THEN /\ positions' = [x \in (DOMAIN positions) \ {s} |-> positions[x]]
          /\ snap' = snap
     ELSE /\ positions' = positions
          /\ snap' = [snap EXCEPT !.seen =
               [x \in (DOMAIN snap.seen) \ {s} |-> snap.seen[x]]]
  /\ UNCHANGED <<cash, totalValue, activePositions, tradeHistory, config, day,
                 runVars, updates, pe, sa, ui, faulty, threw, cfg, ta>>

SnapshotNext ==
  \/ EnableAutoTrading
  \/ StartAutoTrading("r1")
  \/ GenerateSignal("r1")
  \/ ProcessSignal("r1")
  \/ FinishAutoTrading("r1")
  \/ Return("r1")
  \/ TakeSnapshot
  \/ ClearSnapshotCash
  \/ \E s \in Symbols : DeleteFromSnapshot(s)

SpecSnapshot == Init /\ [][SnapshotNext]_vars

\* ------------------------------------ updateConfig with any argument
\* Arguments a JavaScript caller can pass to updateConfig: the well-typed
\* ones, and objects that carry several options or only some fields of
\* strategy.
AnyPartials ==
  Partials
  \cup { [symbols |-> <<"ETH">>],
         [enabled |-> TRUE, maxDailyTrades |-> 1],
         [strategy |-> [minConfidence |-> 90]],
         [strategy |-> [riskTolerance |-> "HIGH", maxPositionSize |-> 100]] }

\* updateConfig(partial), with the argument and the configuration it met
\* kept as history.
UpdateConfigAny ==
  /\ updates < MaxUpdates
  /\ \E partial \in AnyPartials :
       /\ config' = updateConfig(partial)
       /\ cfg' = [applied |-> TRUE, partial |-> partial, before |-> config]
  /\ updates' = updates + 1
  /\ steady' = [r \in Runs |-> FALSE]
  /\ UNCHANGED <<botVars, day, pc, pending, signals, executions, rejects, pe,
                 sa, ui, faulty, threw, snap, ta>>

SpecConfig == Init /\ [][UpdateConfigAny]_vars

\* ------------------------------------ analyzeSentiment on its own
\* analyzeSentiment(symbol) is called: both scrapers are started and the
\* call suspends on Promise.all.
CallSentiment ==
  /\ sa.pc = "idle"
  /\ \E symbol \in Symbols, feed \in Feeds :
       sa' = [pc |-> "awaiting", symbol |-> symbol, feed |-> feed,
              news |-> Pending, social |-> Pending, result |-> <<>>]
  /\ UNCHANGED <<botVars, config, day, runVars, updates, pe, ui, faulty,
                 threw, snap, cfg, ta>>

\* The promise of scrapeNewsData settles.
SettleNews ==
  /\ sa.pc = "awaiting"
  /\ sa.news.status = "pending"
  /\ scrapeNewsData(sa.feed).status # "pending"
  /\ sa' = [sa EXCEPT !.news = scrapeNewsData(sa.feed)]
  /\ UNCHANGED <<botVars, config, day, runVars, updates, pe, ui, faulty,
                 threw, snap, cfg, ta>>

\* The promise of scrapeSocialMedia settles.
SettleSocial ==
  /\ sa.pc = "awaiting"
  /\ sa.social.status = "pending"
  /\ scrapeSocialMedia(sa.feed).status # "pending"
  /\ sa' = [sa EXCEPT !.social = scrapeSocialMedia(sa.feed)]
  /\ UNCHANGED <<botVars, config, day, runVars, updates, pe, ui, faulty,
                 threw, snap, cfg, ta>>

\* Promise.all has settled: analyzeSentiment resumes and returns.
ResumeSentiment ==
  /\ sa.pc = "awaiting"
  /\ PromiseAll(sa.news, sa.social).status # "pending"
  /\ sa' = [sa EXCEPT !.pc = "returned",
                      !.result = <<analyzeSentiment(sa.symbol,
                                     PromiseAll(sa.news, sa.social))>>]
  /\ UNCHANGED <<botVars, config, day, runVars, updates, pe, ui, faulty,
                 threw, snap, cfg, ta>>

\* The caller has the result.
TakeSentiment ==
  /\ sa.pc = "returned"
  /\ sa' = IdleSentiment
  /\ UNCHANGED <<botVars, config, day, runVars, updates, pe, ui, faulty,
                 threw, snap, cfg, ta>>

SentimentNext ==
  \/ CallSentiment
  \/ SettleNews
  \/ SettleSocial
  \/ ResumeSentiment
  \/ TakeSentiment

SpecSentiment == Init /\ [][SentimentNext]_vars

\* ------------------------------------ updatePortfolio on its own
\* updatePortfolio applied to an execution of any symbol, action, amount
\* and price, recorded as executeTrade records it.
ApplyExecution ==
  /\ Len(tradeHistory) < MaxExecutions
  /\ \E symbol \in Symbols, action \in Actions, amount \in Amounts,
        price \in Prices :
       LET execution ==
             [id |-> Len(tradeHistory) + 1, symbol |-> symbol,
              action |-> action, amount |-> amount, price |-> price,
              day |-> day, status |-> "EXECUTED", profit |-> 0]
           p == updatePortfolio(execution)
       IN /\ cash' = p.cash
          /\ totalValue' = p.totalValue
          /\ positions' = p.positions
          /\ activePositions' =
               [s \in (DOMAIN activePositions) \ {symbol} |->
                  activePositions[s]] @@ (symbol :> execution)
          /\ tradeHistory' = Append(tradeHistory, execution)
  /\ UNCHANGED <<config, day, runVars, updates, pe, auxVars>>

SpecPortfolio == Init /\ [][ApplyExecution]_vars

\* ------------------------------------ the indicator functions on their own
\* The series and periods the indicator functions are called with.
Samples == {99 * PriceScale, 100 * PriceScale, 101 * PriceScale}
Series == UNION { [1..n -> Samples] : n \in 0..MaxLen }
Periods == {2, 3}

CalculateRSI ==
  /\ ta.op = "idle"
  /\ \E prices \in Series, period \in Periods :
       ta' = [IdleTechnical EXCEPT !.op = "calculateRSI",
                                   !.prices = prices, !.period = period,
                                   !.result = calculateRSI(prices, period)]
  /\ UNCHANGED <<botVars, config, day, runVars, updates, pe, sa, ui, faulty,
                 threw, snap, cfg>>

CalculateSMA ==
  /\ ta.op = "idle"
  /\ \E prices \in Series, period \in Periods :
       ta' = [IdleTechnical EXCEPT !.op = "calculateSMA",
                                   !.prices = prices, !.period = period,
                                   !.result = calculateSMA(prices, period)]
  /\ UNCHANGED <<botVars, config, day, runVars, updates, pe, sa, ui, faulty,
                 threw, snap, cfg>>

CalculateEMA ==
  /\ ta.op = "idle"
  /\ \E prices \in Series, period \in Periods :
       ta' = [IdleTechnical EXCEPT !.op = "calculateEMA",
                                   !.prices = prices, !.period = period,
                                   !.result = calculateEMA(prices, period)]
  /\ UNCHANGED <<botVars, config, day, runVars, updates, pe, sa, ui, faulty,
                 threw, snap, cfg>>

\* The caller has the value.
TakeIndicator ==
  /\ ta.op \in {"calculateRSI", "calculateSMA", "calculateEMA"}
  /\ ta' = IdleTechnical
  /\ UNCHANGED <<botVars, config, day, runVars, updates, pe, sa, ui, faulty,
                 threw, snap, cfg>>

TechnicalNext ==
  \/ CalculateRSI
  \/ CalculateSMA
  \/ CalculateEMA
  \/ TakeIndicator

SpecTechnical == Init /\ [][TechnicalNext]_vars

\* ------------------------------------ degraded input
\* The indicator functions and analyzeSentiment share no state; one call
\* of either is looked at at a time.
DegradedSentiment ==
  /\ ta.op = "idle"
  /\ SentimentNext

DegradedTechnical ==
  /\ sa.pc = "idle"
  /\ TechnicalNext

DegradedNext ==
  \/ DegradedSentiment
  \/ DegradedTechnical

SpecDegraded == Init /\ [][DegradedNext]_vars

\* ------------------------------------ generatePrediction on a price history
\* Price histories generatePrediction is called with: n samples that start
\* next to 100 and move by step a sample.
History(n, step) == [i \in 1..n |-> (100 + step * i) * PriceScale]
PriceHistories ==
  {History(30, 0), History(30, 1), History(30, -1), History(10, 0)}

\* generatePrediction is called with a price history: the indicators are
\* computed from it and the call suspends on analyzeSentiment, unless
\* computing them throws; technicalSignals is what analyzeIndicators makes
\* of the indicators once the call resumes.
CallPredictionOnHistory ==
  /\ pe.pc = "idle"
  /\ \E symbol \in Symbols, currentPrice \in Prices,
        priceHistory \in PriceHistories,
        marketConditions \in MarketConditions,
        fault \in {"none", "indicators"} :
       LET indicators == calculateTechnicalIndicators(priceHistory)
           technicalSignals == analyzeIndicators(indicators)
           call == [pe EXCEPT !.symbol = symbol,
                              !.currentPrice = currentPrice,
                              !.technicalSignals = technicalSignals,
                              !.marketConditions = marketConditions,
                              !.overall = 0, !.fault = fault]
           out == generatePrediction(symbol, currentPrice, technicalSignals,
                                     0, marketConditions, fault)
       IN /\ pe' = IF fault = "none"
                   THEN [call EXCEPT !.pc = "awaiting", !.result = <<>>]
                   ELSE [call EXCEPT !.pc = out.status,
                                     !.result = out.value]
          /\ ta' = [IdleTechnical EXCEPT
                      !.op = "calculateTechnicalIndicators",
                      !.prices = priceHistory, !.period = 14,
                      !.result = indicators.rsi,
                      !.indicators = <<indicators>>]
  /\ UNCHANGED <<botVars, config, day, runVars, updates, sa, ui, faulty,
                 threw, snap, cfg>>

HistoryNext ==
  \/ CallPredictionOnHistory
  \/ ResumePrediction
  \/ TakePrediction

SpecHistory == Init /\ [][HistoryNext]_vars

\* ====================================================================
\* Properties of the Portfolio & Risk Manager
\* ====================================================================
PositionValue ==
  SumOver([s \in DOMAIN positions |-> positions[s].currentValue],
          DOMAIN positions)

Appended == Len(tradeHistory') > Len(tradeHistory)
NewExecution == tradeHistory'[Len(tradeHistory')]
TodayIds == { tradeHistory[i].id : i \in { j \in DOMAIN tradeHistory :
                                             tradeHistory[j].day = day } }
ExecutionIds(r) == { executions[r][i].id : i \in DOMAIN executions[r] }
Reasons(r) == { rejects[r][i].reason : i \in DOMAIN rejects[r] }
HistoryActions == { tradeHistory[i].action : i \in DOMAIN tradeHistory }

\* C1: after any sequence of trade executions totalValue equals cash plus
\* the sum of currentValue over all positions.
C1_PortfolioValue == totalValue = cash + PositionValue

C1_Witness ==
  /\ {"BUY", "SELL"} \subseteq HistoryActions
  /\ DOMAIN positions # {}
  /\ cash # initializePortfolio.cash

\* C3 (as claimed): in every reachable state the number of tradeHistory
\* entries dated today is at most maxDailyTrades.
C3_DailyCapAlways == todayTrades(day) <= config.maxDailyTrades

\* C3 scenario: a call that starts with no trade today, keeps its
\* configuration and day, and carries maxDailyTrades + 1 signals of which
\* none fails another check, ends with exactly maxDailyTrades executions
\* and one rejection, for frequency.
C3_Scenario(r) ==
  ( /\ pc[r] = "done"
    /\ steady[r]
    /\ config.enabled
    /\ Len(executions[r]) + Len(rejects[r]) = config.maxDailyTrades + 1
    /\ TodayIds \subseteq ExecutionIds(r)
    /\ Reasons(r) \subseteq {"frequency"} )
  => /\ Len(executions[r]) = config.maxDailyTrades
     /\ Len(rejects[r]) = 1
     /\ rejects[r][1].reason = "frequency"

\* C3 (amended): the scenario holds; an execution is recorded only while
\* fewer than maxDailyTrades entries are dated today; and the count of
\* today's entries exceeds maxDailyTrades only by updateConfig lowering it.
C3_DailyCap ==
  /\ [](\A r \in Runs : C3_Scenario(r))
  /\ [][ /\ Appended => todayTrades(day) < config.maxDailyTrades
         /\ ( /\ todayTrades(day) <= config.maxDailyTrades
              /\ config'.maxDailyTrades >= config.maxDailyTrades )
            => Cardinality({ i \in DOMAIN tradeHistory' :
                               tradeHistory'[i].day = day' })
                 <= config'.maxDailyTrades ]_vars

C3_Witness ==
  \E r \in Runs :
    /\ pc[r] = "done"
    /\ steady[r]
    /\ config.maxDailyTrades = 1
    /\ Len(executions[r]) = 1
    /\ Len(rejects[r]) = 1
    /\ rejects[r][1].reason = "frequency"
    /\ TodayIds = ExecutionIds(r)

\* C4: an execution is recorded for a signal only if, in the state of its
\* admission check, fewer than maxDailyTrades trades were executed today,
\* the symbol had no active position, its confidence was at least
\* minConfidence and the portfolio risk was below maxPortfolioRisk.
C4_AdmissionSafety ==
  [][ Appended =>
        \E r \in Runs : \E i \in DOMAIN signals[r] :
          LET signal == signals[r][i] IN
            /\ signals'[r] = SubSeq(signals[r], i + 1, Len(signals[r]))
            /\ NewExecution.symbol = signal.symbol
            /\ NewExecution.action = signal.action
            /\ NewExecution.price = signal.price
            /\ todayTrades(day) < config.maxDailyTrades
            /\ signal.symbol \notin DOMAIN activePositions
            /\ signal.confidence >= config.strategy.minConfidence
            /\ calculatePortfolioRisk < config.maxPortfolioRisk ]_vars

C4_Witness ==
  \E r \in Runs :
    /\ executions[r] # <<>>
    /\ "risk" \in Reasons(r)

\* C5: every execution recorded in tradeHistory or activePositions has
\* action BUY or SELL and amount > 0.
C5_OnlyBuySell ==
  /\ \A i \in DOMAIN tradeHistory :
       /\ tradeHistory[i].action \in {"BUY", "SELL"}
       /\ tradeHistory[i].amount > 0
  /\ \A s \in DOMAIN activePositions :
       /\ activePositions[s].action \in {"BUY", "SELL"}
       /\ activePositions[s].amount > 0

\* C6: the amount of an executed trade is (totalValue x maxPositionSize /
\* price) x confidence x riskMultiplier with riskMultiplier 0.5 / 0.75 /
\* 1.0 for LOW / MEDIUM / HIGH, so amount x price never exceeds
\* maxPositionSize x totalValue taken just before the trade.
RiskMultiplierTable ==
  [t \in {"LOW", "MEDIUM", "HIGH"} |->
     IF t = "LOW" THEN 50 ELSE IF t = "MEDIUM" THEN 75 ELSE 100]

C7_RejectionNoEffect ==
  [][ \A r \in Runs :
        (Len(rejects'[r]) > Len(rejects[r]) /\ ~Appended) =>
          /\ UNCHANGED <<cash, totalValue, positions, activePositions,
                         tradeHistory>>
          /\ executions'[r] = executions[r]
          /\ pc'[r] \in {"executing", "done"} ]_vars

C7_Witness ==
  \E r \in Runs :
    /\ "size" \in Reasons(r)
    /\ tradeHistory = <<>>

\* C8: a SELL reduces the held amount by the executed amount and deletes
\* the entry when the result is <= 0, so every entry of positions has
\* amount > 0.
C8_PositiveAmounts ==
  \A s \in DOMAIN positions : positions[s].amount > 0

C8_Witness ==
  /\ Len(tradeHistory) = 3
  /\ tradeHistory[1].action = "BUY" /\ tradeHistory[1].amount = 1000
  /\ tradeHistory[2].action = "SELL" /\ tradeHistory[2].amount = 500
  /\ tradeHistory[3].action = "SELL" /\ tradeHistory[3].amount = 500
  /\ tradeHistory[1].symbol = tradeHistory[2].symbol
  /\ tradeHistory[2].symbol = tradeHistory[3].symbol
  /\ positions = EmptyMap

\* C2: overlapping executeAutoTrading calls never interleave the admission
\* check of one with the mutation of the other: a symbol is executed at
\* most once, every signal for an already executed symbol finds the open
\* position at its check, and of two calls that both carried a BUY signal
\* for a symbol and lost it to no other check, exactly one executed it.
ExecutedBy(r, symbol) ==
  \E i \in DOMAIN executions[r] : executions[r][i].symbol = symbol
LostToPosition(r, symbol) ==
  \E i \in DOMAIN rejects[r] :
    /\ rejects[r][i].symbol = symbol
    /\ rejects[r][i].action = "BUY"
    /\ rejects[r][i].reason = "position"

C2_AtomicAdmission ==
  /\ \A symbol \in Symbols :
       Cardinality({ i \in DOMAIN tradeHistory :
                       tradeHistory[i].symbol = symbol }) <= 1
  /\ \A r \in Runs : \A i \in DOMAIN rejects[r] :
       rejects[r][i].traded <=> rejects[r][i].held
  /\ \A r \in Runs : \A symbol \in Symbols :
       LostToPosition(r, symbol) =>
         /\ ~ExecutedBy(r, symbol)
         /\ Cardinality({ i \in DOMAIN tradeHistory :
                            tradeHistory[i].symbol = symbol }) = 1

C2_Witness ==
  \E symbol \in Symbols :
    /\ pc["r1"] = "executing"
    /\ \E i \in DOMAIN executions["r1"] :
         /\ executions["r1"][i].symbol = symbol
         /\ executions["r1"][i].action = "BUY"
    /\ LostToPosition("r2", symbol)
    /\ Cardinality({ i \in DOMAIN tradeHistory :
                       tradeHistory[i].symbol = symbol }) = 1

\* ====================================================================
\* Properties of the Signal Fusion Engine
\* ====================================================================
\* C9: the confidence generatePrediction produces is within [0.1, 0.95]
\* for every technical confidence, sentiment and volatility.
C9_ConfidenceRange ==
  pe.pc = "resolved" =>
    /\ pe.result[1].confidence >= 10
    /\ pe.result[1].confidence <= 95

\* C10: if a step inside generatePrediction throws, the call does not
\* reject; it resolves to the default result: HOLD, confidence 0.5 and a
\* single placeholder reasoning entry.
C10_DefaultOnFault ==
  /\ pe.pc # "rejected"
  /\ (pe.pc = "resolved" /\ pe.fault # "none") =>
       /\ pe.result[1].prediction = "HOLD"
       /\ pe.result[1].confidence = 50
       /\ Len(pe.result[1].reasoning) = 1
       /\ pe.result[1].reasoning[1].text
            = "Insufficient data for accurate prediction"

C10_Witness ==
  /\ pe.pc = "resolved"
  /\ pe.fault = "reasoning"
  /\ pe.overall = 100
  /\ pe.result[1].prediction = "HOLD"



\* ====================================================================
\* Properties of the auto-trading loop
\* ====================================================================
SignalSymbols(q) == { q[i].symbol : i \in DOMAIN q }

\* C13: at any time at most one generateTradingSignals run started by the
\* periodic tick is in progress.
C13_NoOverlappingTicks ==
  Cardinality({ r \in ui.calls : pc[r] = "generating" }) <= 1

\* C16: a throw while one symbol is evaluated never ends the loop of
\* generateTradingSignals: each step moves on to the next symbol and keeps
\* the signals collected so far, the call returns only after the last
\* symbol, and what it returns has no signal of a symbol that threw and,
\* when every confidence reaches minConfidence, a signal of every other
\* symbol of the list.
C16_FaultIsolation ==
  /\ [](\A r \in ui.calls :
          pc[r] = "executing" =>
            /\ SignalSymbols(signals[r]) \cap threw[r] = {}
            /\ ( /\ steady[r]
                 /\ \A c \in Confidences : c >= config.strategy.minConfidence )
               => SignalSymbols(signals[r])
                    = { UiSymbols[i] : i \in DOMAIN UiSymbols } \ threw[r])
  /\ [][ \A r \in Runs :
           (pc[r] = "generating" /\ pending'[r] # pending[r]) =>
             /\ pending'[r] = Tail(pending[r])
             /\ pc'[r] = IF Len(pending[r]) = 1 THEN "executing"
                         ELSE "generating"
             /\ \A i \in DOMAIN signals[r] :
                  \E j \in DOMAIN signals'[r] :
                    signals'[r][j] = signals[r][i] ]_vars

C16_Witness ==
  /\ "r1" \in ui.calls
  /\ pc["r1"] = "executing"
  /\ threw["r1"] = {"BTC"}
  /\ SignalSymbols(signals["r1"]) = {"ETH"}

\* C17: an executeAutoTrading call made while config.enabled is false
\* returns at once with an empty list and changes nothing of cash,
\* totalValue, positions, activePositions and tradeHistory.
C17_MasterSwitch ==
  /\ [](\A r \in Runs :
          (pc[r] = "done" /\ steady[r] /\ ~config.enabled) =>
            executions[r] = <<>>)
  /\ [][ \A r \in Runs :
           (pc[r] = "idle" /\ pc'[r] # "idle" /\ ~config.enabled) =>
             /\ pc'[r] = "done"
             /\ executions'[r] = <<>>
             /\ signals'[r] = <<>>
             /\ UNCHANGED botVars ]_vars

C17_Witness ==
  /\ pc["r1"] = "done"
  /\ steady["r1"]
  /\ ~config.enabled
  /\ executions["r1"] = <<>>
  /\ tradeHistory # <<>>


\* ====================================================================
\* Properties of the public methods of TradingBot
\* ====================================================================
\* C14: a value returned by getPortfolio() is a copy: a later trade
\* execution leaves its cash, totalValue and positions as they were, and a
\* write to it, its positions map included, changes nothing of the
\* portfolio of the bot.
C14_SnapshotIsCopy ==
  [][ /\ (snap.taken /\ Appended) =>
           /\ snap'.cash = snap.cash
           /\ snap'.totalValue = snap.totalValue
           /\ SnapshotPositions' = SnapshotPositions
      /\ ~Appended => UNCHANGED <<cash, totalValue, positions>> ]_vars


\* C15: after updateConfig(partial) every option the partial does not
\* supply keeps its value: the top-level options, and each field of
\* strategy, also when the partial supplies only some fields of strategy.
TopOptions ==
  {"enabled", "maxDailyTrades", "maxPortfolioRisk", "symbols", "strategy"}
StrategyOptions ==
  {"riskTolerance", "maxPositionSize", "stopLossPercentage",
   "takeProfitPercentage", "minConfidence"}

C15_PartialOverride ==
  cfg.applied =>
    /\ \A f \in TopOptions \ DOMAIN cfg.partial : config[f] = cfg.before[f]
    /\ \A f \in StrategyOptions \cap DOMAIN cfg.before.strategy :
         ( \/ "strategy" \notin DOMAIN cfg.partial
           \/ f \notin DOMAIN cfg.partial.strategy )
         => /\ f \in DOMAIN config.strategy
            /\ config.strategy[f] = cfg.before.strategy[f]

\* ====================================================================
\* Properties of the Sentiment Aggregator
\* ====================================================================
FailedSources == { n \in SourceNames : sa.feed.status[n] = "fail" }
AllSources(v) == \A n \in SourceNames : sa.feed.value[n] = v
AllAnswer == \A n \in SourceNames : sa.feed.status[n] = "ok"

\* C11: when exactly one source fails and the others answer, the result
\* of analyzeSentiment has 0 for the failed source, keeps the value of
\* every other source in sources, and has the overall that the weights
\* give for those values.
C11_SourceIsolation ==
  (sa.pc = "returned" /\ FailedSources # {}) =>
    LET kept == [n \in SourceNames |->
                   IF n \in FailedSources THEN 0 ELSE sa.feed.value[n]]
    IN /\ \A n \in SourceNames : sa.result[1].sources[n] = kept[n]
       /\ sa.result[1].overall
            = calculateOverallSentiment(kept["news"],
                [twitter |-> kept["twitter"], reddit |-> kept["reddit"],
                 telegram |-> kept["telegram"]])

\* C12: an analyzeSentiment call never waits for ever, also when one
\* source never answers: while the call is suspended, a promise can still
\* settle or the call can resume and return.
C12_EventuallyReturns ==
  sa.pc = "awaiting" =>
    \/ ENABLED SettleNews
    \/ ENABLED SettleSocial
    \/ ENABLED ResumeSentiment

\* C18: overall is the weighted sum of the four source values: it is
\* exactly 1 when every source is 1, exactly -1 when every source is -1,
\* and within [-1, 1] for all source values in [-1, 1].
C18_LinearCombination ==
  (sa.pc = "returned" /\ AllAnswer) =>
    /\ AllSources(100) => sa.result[1].overall = DblOne
    /\ AllSources(-100) => sa.result[1].overall = DblNeg(DblOne)
    /\ DblLeq(DblNeg(DblOne), sa.result[1].overall)
    /\ DblLeq(sa.result[1].overall, DblOne)


\* C19: the sentiment label is "Very Bullish" above 0.5, "Bullish" in
\* (0.2, 0.5], "Neutral" in (-0.2, 0.2], "Bearish" in (-0.5, -0.2] and
\* "Very Bearish" otherwise; the sentiment clause of the reasoning carries
\* it in lower case.
SentimentClauses ==
  { pe.result[1].reasoning[i] : i \in DOMAIN pe.result[1].reasoning }

ClaimedLabel(overall) ==
  CASE overall > 50 -> "very bullish"
    [] 20 < overall /\ overall <= 50 -> "bullish"
    [] -20 < overall /\ overall <= 20 -> "neutral"
    [] -50 < overall /\ overall <= -20 -> "bearish"
    [] OTHER -> "very bearish"

C19_LabelCutpoints ==
  (pe.pc = "resolved" /\ pe.fault = "none") =>
    \A c \in SentimentClauses :
      c.part = "sentiment" => c.detail = ClaimedLabel(pe.overall)

\* C20: the fused score, the sum of the technical, sentiment and market
\* scores weighted 0.5, 0.3 and 0.2, gives BUY exactly when it is above
\* 0.3, SELL exactly when it is below -0.3 and HOLD otherwise, 0.3 and
\* -0.3 themselves giving HOLD.
FusionWeights == [technical |-> 50, sentiment |-> 30, market |-> 20]

FusedScore ==
  getTechnicalScore(getOverallSignal(pe.technicalSignals))
    * FusionWeights.technical
  + pe.overall * FusionWeights.sentiment
  + getMarketScore(pe.marketConditions) * FusionWeights.market

C20_ActionMapping ==
  /\ FusionWeights.technical + FusionWeights.sentiment
       + FusionWeights.market = Pct
  /\ (pe.pc = "resolved" /\ pe.fault = "none") =>
       /\ pe.result[1].prediction = "BUY" <=> FusedScore > 30 * Pct
       /\ pe.result[1].prediction = "SELL" <=> FusedScore < -30 * Pct
       /\ pe.result[1].prediction = "HOLD"
            <=> (-30 * Pct <= FusedScore /\ FusedScore <= 30 * Pct)

C20_Witness ==
  /\ pe.pc = "resolved"
  /\ pe.fault = "none"
  /\ FusedScore = 30 * Pct
  /\ pe.result[1].prediction = "HOLD"


\* C21: a BUY prediction at price p has stopLoss 0.95 p and takeProfit
\* 1.15 p (95 and 115 at p = 100), a SELL prediction has stopLoss 1.05 p
\* and takeProfit 0.85 p, whatever the risk tolerance of the strategy; so
\* stopLoss < p < takeProfit for a BUY and takeProfit < p < stopLoss for a
\* SELL.
TargetsAt100(prediction) ==
  calculatePriceTargets(100, prediction, BandsFor(100), 50)

Window(prices, period) ==
  SubSeq(prices, Len(prices) - period, Len(prices))

WindowDeltas ==
  LET w == Window(ta.prices, ta.period)
  IN { w[i + 1] - w[i] : i \in 1..ta.period }

\* C22: calculateRSI returns a value in [0, 100] for every series, and
\* returns exactly 100 if and only if every delta in the lookback window
\* is non-negative and at least one of them is positive.
C22_RsiRange ==
  ta.op = "calculateRSI" =>
    /\ 0 <= ta.result /\ ta.result <= 100 * RsiScale
    /\ Len(ta.prices) >= ta.period + 1 =>
         (ta.result = 100 * RsiScale
            <=> /\ \A d \in WindowDeltas : d >= 0
                /\ \E d \in WindowDeltas : d > 0)

\* C23: calculateRSI depends only on the last period + 1 samples: a
\* series with at least period + 1 samples has the RSI of its last
\* period + 1 samples taken alone, so two series that end alike have the
\* same RSI.
C23_TrailingWindow ==
  (ta.op = "calculateRSI" /\ Len(ta.prices) >= ta.period + 1) =>
    ta.result = calculateRSI(Window(ta.prices, ta.period), ta.period)


\* C24: degraded input is answered with a neutral value, never with an
\* error: calculateRSI of fewer than period + 1 samples is 50,
\* calculateSMA of fewer samples than the period is the most recent
\* sample, calculateEMA of a single sample is that sample, and a sentiment
\* source that is missing has the value 0 in the result of
\* analyzeSentiment.
C24_DegradedInput ==
  /\ (ta.op = "calculateRSI" /\ Len(ta.prices) < ta.period + 1) =>
       ta.result = 50 * RsiScale
  /\ (ta.op = "calculateSMA" /\ Len(ta.prices) < ta.period
        /\ Len(ta.prices) > 0) =>
       ta.result = ta.prices[Len(ta.prices)]
  /\ (ta.op = "calculateEMA" /\ Len(ta.prices) = 1) =>
       ta.result = ta.prices[1]
  /\ sa.pc = "returned" =>
       \A n \in FailedSources : sa.result[1].sources[n] = 0

C24_Witness ==
  /\ sa.pc = "returned"
  /\ FailedSources = {"news"}
  /\ sa.feed.mode = "degrades"
  /\ sa.feed.value["news"] = 100
  /\ sa.feed.value["twitter"] = 50
  /\ sa.result[1].sources["news"] = 0
  /\ sa.result[1].sources["twitter"] = 50


\* C25: on a price history of 30 samples all equal to 100, with neutral
\* sentiment and a sideways market, calculateRSI returns 50, the
\* prediction is HOLD and its reasoning has an entry that says sideways.
FlatSeries == [i \in 1..30 |-> 100 * PriceScale]

C25_FlatSeries ==
  (/\ pe.pc = "resolved" /\ pe.fault = "none"
   /\ ta.op = "calculateTechnicalIndicators" /\ ta.prices = FlatSeries
   /\ pe.overall = 0 /\ pe.marketConditions.trend = "SIDEWAYS") =>
    /\ ta.indicators[1].rsi = 50 * RsiScale
    /\ pe.result[1].prediction = "HOLD"
    /\ \E i \in DOMAIN pe.result[1].reasoning :
         pe.result[1].reasoning[i].detail = "sideways"


\* C26: the reasoning of a prediction that is not the default one is the
\* technical clauses in the order of the indicators, then exactly one
\* sentiment clause, then the market clauses, then a closing clause that
\* names the predicted action.
C26_ReasoningOrder ==
  (pe.pc = "resolved" /\ pe.fault = "none") =>
    LET reasoning == pe.result[1].reasoning
        n == Len(pe.technicalSignals)
        last == Len(reasoning)
    IN /\ last >= n + 3
       /\ \A i \in 1..n :
            /\ reasoning[i].part = "technical"
            /\ reasoning[i].text = pe.technicalSignals[i].indicator
       /\ reasoning[n + 1].part = "sentiment"
       /\ \A i \in (n + 2)..(last - 1) : reasoning[i].part = "market"
       /\ reasoning[last].part = "action"
       /\ reasoning[last].detail = pe.result[1].prediction


\* ====================================================================
\* Properties of the portfolio under executions
\* ====================================================================
\* C27: a BUY of amount a at price p lowers cash by a x p; a symbol
\* without a position gets one of amount a and average price p; a held
\* symbol gets amount oldAmount + a and the average price
\* (oldAmount x oldAvgPrice + a x p) / (oldAmount + a), here to within one
\* unit of the price; the positions of the other symbols stay as they are.
C27_BuyEffect ==
  [][ (Appended /\ NewExecution.action = "BUY") =>
        LET symbol == NewExecution.symbol
            a == NewExecution.amount
            p == NewExecution.price
        IN /\ cash' * AmountScale = cash * AmountScale - a * p
           /\ symbol \in DOMAIN positions'
           /\ symbol \notin DOMAIN positions =>
                /\ positions'[symbol].amount = a
                /\ positions'[symbol].averagePrice = p
           /\ symbol \in DOMAIN positions =>
                LET oldAmount == positions[symbol].amount
                    oldAvgPrice == positions[symbol].averagePrice
                    totalCost == oldAmount * oldAvgPrice + a * p
                    avg == positions'[symbol].averagePrice
                IN /\ positions'[symbol].amount = oldAmount + a
                   /\ avg * (oldAmount + a) <= totalCost
                   /\ totalCost < (avg + 1) * (oldAmount + a)
           /\ DOMAIN positions' = DOMAIN positions \cup {symbol}
           /\ \A s \in (DOMAIN positions) \ {symbol} :
                positions'[s] = positions[s] ]_vars

C27_Witness ==
  /\ Len(tradeHistory) = 2
  /\ tradeHistory[1].action = "BUY" /\ tradeHistory[2].action = "BUY"
  /\ tradeHistory[1].symbol = "BTC" /\ tradeHistory[2].symbol = "BTC"
  /\ tradeHistory[1].price = 10000 /\ tradeHistory[2].price = 20000
  /\ tradeHistory[1].amount = 1000 /\ tradeHistory[2].amount = 500
  /\ positions["BTC"].amount = 1500
  /\ positions["BTC"].averagePrice = 13333
  /\ cash = initializePortfolio.cash - 20000


\* C28: in every state the symbols that key activePositions are the
\* symbols of the tradeHistory entries and there are as many of them as
\* entries, so no symbol is executed twice; tradeHistory only grows, its
\* entries staying as they are, and no activePositions entry is removed.
HistorySymbols == { tradeHistory[i].symbol : i \in DOMAIN tradeHistory }

C28_ActiveBookkeeping ==
  /\ [](/\ DOMAIN activePositions = HistorySymbols
        /\ Cardinality(DOMAIN activePositions) = Len(tradeHistory))
  /\ [][ /\ Len(tradeHistory') >= Len(tradeHistory)
         /\ SubSeq(tradeHistory', 1, Len(tradeHistory)) = tradeHistory
         /\ DOMAIN activePositions \subseteq DOMAIN activePositions' ]_vars

C28_Witness ==
  /\ day = MaxDay
  /\ DOMAIN activePositions = Symbols
  /\ Len(tradeHistory) = 2
  /\ tradeHistory[1].day = 0
  /\ \E i \in DOMAIN rejects["r1"] : rejects["r1"][i].reason = "position"


\* C29: an execution only converts between cash and position value at the
\* execution price: totalValue right after an execution is totalValue
\* right before it.
C29_ValueConservation ==
  [][ Appended => totalValue' = totalValue ]_vars

\* C30: cash is never negative: no BUY is executed whose cost exceeds the
\* cash at hand.
C30_CashNonNegative == cash >= 0

====
